---- MODULE Spec2Model ----
(***************************************************************************)
(* Model of src/app/page.tsx: the persisted layout store (layoutStore),    *)
(* the drag handlers (handlePointerDown / handleMove / handleEnd), the     *)
(* focus handlers (handleClick / closeFocus and their deferred callbacks)  *)
(* and the style resolver (getStyle) of the Library component.             *)
(*                                                                         *)
(* Conventions: a nullable value is a sequence of length 0 (null) or 1;    *)
(* a nullable card id is 0 for null; a Position is a pair <<x, y>>; a JS   *)
(* object keyed by card id is a function whose DOMAIN is its key set.      *)
(***************************************************************************)
EXTENDS Integers, Sequences, FiniteSets, TLC

\* ---------------------------------------------------------------- bounds
\* How many cards of the dataset take part (a window starting at card 19).
NumCards == 2
\* How many press gestures (each up to two z-bumps) one session may make.
MaxGestures == 1
\* How many requestAnimationFrame / setTimeout callbacks may be pending.
MaxPending == 1
\* How many press gestures one page load may make when localStorage rejects
\* every write.
MaxFocusGestures == 3
\* How many saved drags precede the start of the long-use exploration.
LongUseGestures == 490

\* ------------------------------------------------------ program constants
BaseZ == 20
DragThreshold == 3
FocusLayerZ == 1001
DragLayerZ == 999

\* The dataset, in source order (id, type, static anchor, static z).
fragments ==
  << [id |-> 11, type |-> "manila",     top |-> "2%",  left |-> "5%",   right |-> "none", z |-> 6],
     [id |-> 18, type |-> "aged-paper", top |-> "3%",  left |-> "none", right |-> "5%",   z |-> 6],
     [id |-> 19, type |-> "typewriter", top |-> "16%", left |-> "5%",   right |-> "none", z |-> 5],
     [id |-> 13, type |-> "media",      top |-> "18%", left |-> "none", right |-> "5%",   z |-> 10],
     [id |-> 22, type |-> "notebook",   top |-> "32%", left |-> "5%",   right |-> "none", z |-> 6],
     [id |-> 20, type |-> "legal-pad",  top |-> "44%", left |-> "3%",   right |-> "none", z |-> 7],
     [id |-> 21, type |-> "torn-scrap", top |-> "46%", left |-> "none", right |-> "5%",   z |-> 8] >>

AllCardIds == {fragments[i].id : i \in 1..Len(fragments)}

\* The cards that take part in the model: fragments[3 .. 2+NumCards], cyclically.
CardIndexes == {((i + 1) % Len(fragments)) + 1 : i \in 1..NumCards}
Cards == {fragments[i].id : i \in CardIndexes}

Fragment(id) == fragments[CHOOSE i \in 1..Len(fragments) : fragments[i].id = id]

\* Bounding rectangles (top-left corners) getBoundingClientRect may report.
Rects == {<<100, 100>>, <<2, 16>>}
\* Pointer client coordinates: where a press starts and where moves lead.
PressPoints == {<<110, 120>>}
MovePoints == {<<110, 120>>, <<113, 117>>, <<106, 120>>}

\* Callbacks passed to layoutStore.subscribe: React's own (useSyncExternalStore)
\* and one more observer.
Callbacks == {"react", "probe"}

Abs(n) == IF n < 0 THEN -n ELSE n

\* ------------------------------------------------------------ JSON text
\* JSON.stringify writes a number as its decimal digits, "-" first if negative.
DigitChars == <<"0", "1", "2", "3", "4", "5", "6", "7", "8", "9">>

RECURSIVE NatToStr(_)
NatToStr(n) ==
  IF n < 10 THEN <<DigitChars[n + 1]>>
  ELSE Append(NatToStr(n \div 10), DigitChars[(n % 10) + 1])

NumToStr(n) == IF n < 0 THEN <<"-">> \o NatToStr(-n) ELSE NatToStr(n)

DigitValue(c) == (CHOOSE i \in 1..10 : DigitChars[i] = c) - 1

RECURSIVE StrToNat(_)
StrToNat(s) ==
  IF Len(s) = 1 THEN DigitValue(s[1])
  ELSE 10 * StrToNat(SubSeq(s, 1, Len(s) - 1)) + DigitValue(s[Len(s)])

StrToNum(s) == IF s[1] = "-" THEN -StrToNat(Tail(s)) ELSE StrToNat(s)

\* Own integer-like keys of a JS object are enumerated in ascending order.
RECURSIVE KeysAscending(_)
KeysAscending(S) ==
  IF S = {} THEN <<>>
  ELSE LET m == CHOOSE k \in S : \A j \in S : k <= j
       IN <<m>> \o KeysAscending(S \ {m})

\* JSON.stringify(newData): the members of positions and zIndexes as
\* (key text, value text) entries, maxZ as number text.
JSONstringify(d) ==
  [ kind      |-> "object",
    positions |-> LET ks == KeysAscending(DOMAIN d.positions)
                  IN [i \in 1..Len(ks) |->
                        <<NumToStr(ks[i]), NumToStr(d.positions[ks[i]][1]),
                          NumToStr(d.positions[ks[i]][2])>>],
    zIndexes  |-> LET ks == KeysAscending(DOMAIN d.zIndexes)
                  IN [i \in 1..Len(ks) |->
                        <<NumToStr(ks[i]), NumToStr(d.zIndexes[ks[i]])>>],
    maxZ      |-> NumToStr(d.maxZ) ]

\* Text that is not JSON (a corrupted record).
GarbageText == [kind |-> "garbage", positions |-> <<>>, zIndexes |-> <<>>, maxZ |-> <<>>]

\* The members of a parsed object: the last entry for a key wins.
ParsedPositions(es) ==
  [k \in {StrToNum(es[i][1]) : i \in 1..Len(es)} |->
     LET i == CHOOSE j \in 1..Len(es) :
                /\ StrToNum(es[j][1]) = k
                /\ \A h \in (j+1)..Len(es) : StrToNum(es[h][1]) # k
     IN <<StrToNum(es[i][2]), StrToNum(es[i][3])>>]

ParsedZIndexes(es) ==
  [k \in {StrToNum(es[i][1]) : i \in 1..Len(es)} |->
     LET i == CHOOSE j \in 1..Len(es) :
                /\ StrToNum(es[j][1]) = k
                /\ \A h \in (j+1)..Len(es) : StrToNum(es[h][1]) # k
     IN StrToNum(es[i][2])]

\* JSON.parse(text): [throws |-> TRUE] on text that is not JSON, else the value.
JSONparse(text) ==
  IF text.kind = "garbage"
  THEN [throws |-> TRUE, value |-> <<>>]
  ELSE [throws |-> FALSE,
        value  |-> << [ positions |-> ParsedPositions(text.positions),
                        zIndexes  |-> ParsedZIndexes(text.zIndexes),
                        maxZ      |-> StrToNum(text.maxZ) ] >>]

\* ------------------------------------------------------------ layoutStore
\* A load that reads a key nothing was saved under.
LoadDataOtherKey(item) == <<>>

\* Lines 47-51: the load made when the module is evaluated in the browser.
\* item is localStorage.getItem("library-layout"): <<>> (null) or <<text>>.
\* `data` keeps its initial null when getItem returns null (the text "null"
\* is parsed) and when JSON.parse throws (the catch is empty).
LoadData(item) ==
  IF item = <<>> THEN <<>>
  ELSE LET r == JSONparse(item[1]) IN IF r.throws THEN <<>> ELSE r.value

LoadSnapshot(item) == [data |-> LoadData(item), isLoaded |-> TRUE]

serverSnapshot == [data |-> <<>>, isLoaded |-> FALSE]

\* A JS Set keeps insertion order and holds a value once: listeners is a
\* sequence without repetition.
SetAdd(ls, cb) == IF \E i \in 1..Len(ls) : ls[i] = cb THEN ls ELSE Append(ls, cb)
SetDelete(ls, cb) == SelectSeq(ls, LAMBDA x : x # cb)

\* Line 62, listeners.forEach(cb => cb()): each listener runs once, in
\* insertion order, and reads getSnapshot(); the log notes per call whether
\* the snapshot it read held the data being saved.
NotifyAll(ls, snap, newData) ==
  [i \in 1..Len(ls) |-> [cb |-> ls[i], fresh |-> snap.data = <<newData>>]]

\* A save that calls the listeners before it replaces the snapshot.
saveNotifyFirst(newData, writeOk, item, snap, ls) ==
  IF writeOk
  THEN [ item     |-> <<JSONstringify(newData)>>,
         snapshot |-> [data |-> <<newData>>, isLoaded |-> snap.isLoaded],
         log      |-> NotifyAll(ls, snap, newData),
         escaped  |-> FALSE ]
  ELSE [ item |-> item, snapshot |-> snap, log |-> <<>>, escaped |-> FALSE ]

\* A save that replaces data and snapshot before it writes to storage.
saveAssignFirst(newData, writeOk, item, snap, ls) ==
  LET newSnap == [data |-> <<newData>>, isLoaded |-> snap.isLoaded]
  IN IF writeOk
     THEN [ item     |-> <<JSONstringify(newData)>>,
            snapshot |-> newSnap,
            log      |-> NotifyAll(ls, newSnap, newData),
            escaped  |-> FALSE ]
     ELSE [ item |-> item, snapshot |-> newSnap, log |-> <<>>, escaped |-> FALSE ]

\* Lines 57-64: save(newData). writeOk = FALSE is localStorage.setItem
\* throwing (quota exceeded, storage disabled): the catch swallows it and
\* neither data, snapshot nor listeners are touched.
\* Result: the new storage item, the new snapshot, the notification log.
save(newData, writeOk, item, snap, ls) ==
  IF writeOk
  THEN LET newSnap == [data |-> <<newData>>, isLoaded |-> snap.isLoaded]
       IN [ item     |-> <<JSONstringify(newData)>>,
            snapshot |-> newSnap,
            log      |-> NotifyAll(ls, newSnap, newData),
            escaped  |-> FALSE ]
  ELSE [ item |-> item, snapshot |-> snap, log |-> <<>>, escaped |-> FALSE ]

\* ------------------------------------------------------------- the state
VARIABLES
  storage,       \* localStorage.getItem("library-layout"): <<>> or <<text>>
  snapshot,      \* layoutStore: snapshot = {data, isLoaded} (data is snapshot.data)
  listeners,     \* layoutStore: listeners
  hydrating,     \* the component still renders getServerSnapshot()
  focusedId, focusOrigin, focusPhase,
  draggingId, dragPos,
  dragStartRef, didDragRef, maxZRef,
  rafPending,    \* requestAnimationFrame callbacks not yet run
  timersPending, \* setTimeout(..., 450) callbacks not yet run
  pointer,       \* the browser's pointer: phase, press target, client position
  lastLog,       \* listener calls made by the save of the last step, if any
  fresh,         \* history: no handler has run since the process started
  uncaught,      \* an exception left a handler
  maxEverZ,      \* history: the largest z-index ever assigned to a card
  gesture,       \* history: what held when the current press began
  scenario,      \* history: progress of a click-to-focus, overlay-close sequence
  sessionNewer,  \* history: the focused card was opened while a closing timer was pending
  env            \* the browser: does localStorage.setItem succeed at all; does
                 \* the stylesheet (not part of page.tsx) let the overlay take
                 \* clicks only while it has the class "active"; and the
                 \* z-index counter value at which exploration stops

vars == << storage, snapshot, listeners, hydrating, focusedId, focusOrigin,
           focusPhase, draggingId, dragPos, dragStartRef, didDragRef, maxZRef,
           rafPending, timersPending, pointer, lastLog, fresh, uncaught,
           maxEverZ, gesture, scenario, sessionNewer, env >>

\* Lines 68-71 and 86-88: what the component renders with.
useLayout == IF hydrating THEN serverSnapshot ELSE snapshot
layout == useLayout.data
isLoaded == useLayout.isLoaded
positions == IF layout = <<>> THEN <<>> ELSE layout[1].positions
zIndexes == IF layout = <<>> THEN <<>> ELSE layout[1].zIndexes

\* An object holding the new entry only.
SpreadDroppingOthers(obj, id, v) == [k \in {id} |-> v]

\* {...obj, [id]: v}
Spread(obj, id, v) == [k \in (DOMAIN obj) \cup {id} |-> IF k = id THEN v ELSE obj[k]]

\* A counter that starts at 0 when there is no layout.
InitialMaxZNoBaseline(firstLayout) == IF firstLayout = <<>> THEN 0 ELSE firstLayout[1].maxZ

\* Line 102: useRef(layout?.maxZ ?? 20), evaluated on the first render only.
InitialMaxZ(firstLayout) == IF firstLayout = <<>> THEN BaseZ ELSE firstLayout[1].maxZ

PointerUp == [phase |-> "up", target |-> 0, pressedAt |-> <<0, 0>>, at |-> <<0, 0>>]
NoGesture == [card |-> 0, zBefore |-> 0, posBefore |-> <<>>, moved |-> FALSE, far |-> FALSE]
NoScenario == [stage |-> 0, card |-> 0]

\* A fresh process: the module is evaluated (lines 40-51) and the component
\* mounts (lines 86-102). hyd: the first render is a hydration render, which
\* reads getServerSnapshot(); otherwise it reads getSnapshot().
Mount(item, hyd) ==
  /\ storage' = item
  /\ snapshot' = LoadSnapshot(item)
  /\ listeners' = <<"react">>
  /\ hydrating' = hyd
  /\ focusedId' = 0 /\ focusOrigin' = <<>> /\ focusPhase' = "idle"
  /\ draggingId' = 0 /\ dragPos' = <<>>
  /\ dragStartRef' = <<>> /\ didDragRef' = FALSE
  /\ maxZRef' = InitialMaxZ(IF hyd THEN serverSnapshot.data ELSE LoadData(item))
  /\ rafPending' = 0 /\ timersPending' = 0
  /\ pointer' = PointerUp
  /\ lastLog' = <<>>
  /\ fresh' = TRUE
  /\ uncaught' = FALSE
  /\ gesture' = NoGesture
  /\ scenario' = NoScenario
  /\ sessionNewer' = FALSE
  /\ UNCHANGED env

\* The state after construction, over a localStorage item drawn from items.
Started(items) ==
  /\ storage \in items
  /\ snapshot = LoadSnapshot(storage)
  /\ listeners = <<"react">>
  /\ hydrating \in BOOLEAN
  /\ focusedId = 0 /\ focusOrigin = <<>> /\ focusPhase = "idle"
  /\ draggingId = 0 /\ dragPos = <<>>
  /\ dragStartRef = <<>> /\ didDragRef = FALSE
  /\ maxZRef = InitialMaxZ(IF hydrating THEN serverSnapshot.data ELSE LoadData(storage))
  /\ rafPending = 0 /\ timersPending = 0
  /\ pointer = PointerUp
  /\ lastLog = <<>>
  /\ fresh = TRUE
  /\ uncaught = FALSE
  /\ maxEverZ = 0
  /\ gesture = NoGesture
  /\ scenario = NoScenario
  /\ sessionNewer = FALSE

\* A browser whose localStorage accepts writes unless a write fails, explored
\* for MaxGestures gestures from the baseline counter.
Init ==
  /\ env = [writable |-> TRUE, inertOverlay |-> FALSE,
            zCap |-> BaseZ + 2 * MaxGestures]
  /\ Started({<<>>, <<GarbageText>>})

\* ------------------------------------------------------- history helpers
Max(a, b) == IF a >= b THEN a ELSE b

\* The observer of the sequence press, release, click, next paint, overlay
\* click, closing timer on a card that had no position override.
Advance(name, id) ==
  CASE name = "down" /\ focusedId = 0 /\ focusPhase = "idle" /\ id \notin DOMAIN positions
         /\ rafPending = 0 /\ timersPending = 0        -> [stage |-> 1, card |-> id]
    [] name = "end" /\ scenario.stage = 1              -> [scenario EXCEPT !.stage = 2]
    [] name = "click" /\ scenario.stage = 2 /\ id = scenario.card
                                                       -> [scenario EXCEPT !.stage = 3]
    [] name = "raf" /\ scenario.stage = 3              -> [scenario EXCEPT !.stage = 4]
    [] name = "close" /\ scenario.stage = 4            -> [scenario EXCEPT !.stage = 5]
    [] name = "timer" /\ scenario.stage = 5            -> [scenario EXCEPT !.stage = 6]
    [] OTHER                                           -> NoScenario

\* ------------------------------------------------------------- handlers
\* Lines 104-107: persistLayout. The counter is advanced before the save is
\* attempted. Result: the new maxZRef.current and what save did.
persistLayout(newPositions, newZIndexes, newMaxZ, writeOk) ==
  [ maxZRef |-> newMaxZ,
    saved   |-> save([positions |-> newPositions, zIndexes |-> newZIndexes,
                      maxZ |-> newMaxZ],
                     writeOk, storage, snapshot, listeners) ]

\* A press handed to handlePointerDown whatever card it is on.
pressNeverIgnored(id) == FALSE

\* Lines 345-346: `!isFocused && handlePointerDown(...)`.
pressIgnored(id) == focusedId = id

\* Lines 345-346 with 151-163: onMouseDown / onTouchStart on a card. The
\* press is handed to handlePointerDown unless the card is the focused one.
handlePointerDown(id, rect, client, writeOk) ==
  /\ isLoaded
  /\ pointer.phase # "down"
  /\ pointer' = [phase |-> "down", target |-> id, pressedAt |-> client, at |-> client]
  /\ IF pressIgnored(id)
     THEN /\ fresh' = FALSE
          /\ scenario' = Advance("downFocused", id)
          /\ lastLog' = <<>>
          /\ gesture' = NoGesture
          /\ UNCHANGED << storage, snapshot, didDragRef, dragStartRef, draggingId,
                          dragPos, maxZRef, uncaught, maxEverZ >>
     ELSE LET newMaxZ == maxZRef + 1
              newZIndexes == Spread(zIndexes, id, newMaxZ)
              p == persistLayout(positions, newZIndexes, newMaxZ, writeOk)
          IN /\ maxZRef + 2 <= env.zCap
             /\ writeOk => env.writable
             /\ didDragRef' = FALSE
             /\ dragStartRef' = << [x |-> client[1], y |-> client[2],
                                    elemX |-> rect[1], elemY |-> rect[2]] >>
             /\ draggingId' = id
             /\ dragPos' = <<rect>>
             /\ maxZRef' = p.maxZRef
             /\ storage' = p.saved.item
             /\ snapshot' = p.saved.snapshot
             /\ lastLog' = p.saved.log
             /\ uncaught' = (uncaught \/ p.saved.escaped)
             /\ fresh' = FALSE
             /\ maxEverZ' = IF writeOk THEN Max(maxEverZ, newMaxZ) ELSE maxEverZ
             /\ gesture' = [card |-> id, zBefore |-> maxEverZ,
                            posBefore |-> IF id \in DOMAIN positions
                                          THEN <<positions[id]>> ELSE <<>>,
                            moved |-> FALSE, far |-> FALSE]
             /\ scenario' = Advance("down", id)
  /\ UNCHANGED << listeners, hydrating, focusedId, focusOrigin, focusPhase,
                  rafPending, timersPending, sessionNewer, env >>

\* History: the pointer is more than 3 px from where it was pressed, on the
\* x axis or on the y axis.
FarFrom(at, origin) ==
  \/ at[1] - origin[1] > 3 \/ origin[1] - at[1] > 3
  \/ at[2] - origin[2] > 3 \/ origin[2] - at[2] > 3

\* The movement test demanding both axes.
exceedsThresholdBothAxes(dx, dy) == Abs(dx) > DragThreshold /\ Abs(dy) > DragThreshold

\* The movement test that also counts a movement of exactly 3 px.
exceedsThresholdInclusive(dx, dy) == Abs(dx) >= DragThreshold \/ Abs(dy) >= DragThreshold

\* Line 121: the movement test.
exceedsThreshold(dx, dy) == Abs(dx) > DragThreshold \/ Abs(dy) > DragThreshold

\* Lines 113-124: handleMove, a window listener that exists while
\* draggingId is not null (line 111).
handleMove(client) ==
  /\ draggingId # 0
  /\ pointer.phase = "down"
  /\ pointer' = [pointer EXCEPT !.at = client]
  /\ IF dragStartRef # <<>>
     THEN LET dx == client[1] - dragStartRef[1].x
              dy == client[2] - dragStartRef[1].y
          IN /\ didDragRef' = (IF exceedsThreshold(dx, dy) THEN TRUE ELSE didDragRef)
             /\ dragPos' = << <<dragStartRef[1].elemX + dx, dragStartRef[1].elemY + dy>> >>
     ELSE UNCHANGED << didDragRef, dragPos >>
  /\ fresh' = FALSE
  /\ scenario' = Advance("move", draggingId)
  /\ lastLog' = <<>>
  /\ gesture' = [gesture EXCEPT
                   !.moved = TRUE,
                   !.far = gesture.far \/ FarFrom(client, pointer.pressedAt)]
  /\ UNCHANGED << storage, snapshot, listeners, hydrating, focusedId, focusOrigin,
                  focusPhase, draggingId, dragStartRef, maxZRef, rafPending,
                  timersPending, uncaught, maxEverZ, sessionNewer, env >>

\* Line 127: handleEnd commits when a drag id and a live drag position exist.
commits == draggingId # 0 /\ dragPos # <<>>

\* Lines 126-136: handleEnd, a window listener that exists while draggingId
\* is not null.
handleEnd(writeOk) ==
  /\ draggingId # 0
  /\ pointer.phase = "down"
  /\ pointer' = [phase |-> "released", target |-> pointer.target,
                  pressedAt |-> <<0, 0>>, at |-> <<0, 0>>]
  /\ IF commits
     THEN LET newMaxZ == maxZRef + 1
              newPositions == Spread(positions, draggingId, dragPos[1])
              newZIndexes == Spread(zIndexes, draggingId, newMaxZ)
              p == persistLayout(newPositions, newZIndexes, newMaxZ, writeOk)
          IN /\ writeOk => env.writable
             /\ maxZRef' = p.maxZRef
             /\ storage' = p.saved.item
             /\ snapshot' = p.saved.snapshot
             /\ lastLog' = p.saved.log
             /\ uncaught' = (uncaught \/ p.saved.escaped)
             /\ fresh' = FALSE
             /\ maxEverZ' = IF writeOk THEN Max(maxEverZ, newMaxZ) ELSE maxEverZ
     ELSE /\ ~writeOk
          /\ fresh' = FALSE
          /\ lastLog' = <<>>
          /\ UNCHANGED << maxZRef, storage, snapshot, uncaught, maxEverZ >>
  /\ draggingId' = 0
  /\ dragPos' = <<>>
  /\ dragStartRef' = <<>>
  /\ scenario' = Advance("end", draggingId)
  /\ UNCHANGED << listeners, hydrating, focusedId, focusOrigin, focusPhase,
                  didDragRef, rafPending, timersPending, gesture, sessionNewer, env >>

\* A release of a press that started no drag (the press was on the focused
\* card): no handler of the component listens.
releaseWithoutDrag ==
  /\ draggingId = 0
  /\ pointer.phase = "down"
  /\ pointer' = [phase |-> "released", target |-> pointer.target,
                  pressedAt |-> <<0, 0>>, at |-> <<0, 0>>]
  /\ fresh' = FALSE
  /\ scenario' = Advance("release", pointer.target)
  /\ lastLog' = <<>>
  /\ UNCHANGED << storage, snapshot, listeners, hydrating, focusedId, focusOrigin,
                  focusPhase, draggingId, dragPos, dragStartRef, didDragRef, maxZRef,
                  rafPending, timersPending, uncaught, maxEverZ, gesture,
                  sessionNewer, env >>

\* A test that never takes the unfocus branch.
neverFocusedCard(id) == FALSE

\* Line 172: the clicked card is the focused one.
isFocusedCard(id) == focusedId = id

\* Lines 166-187: handleClick, the click the browser delivers to the card
\* that was pressed and released.
handleClick(id, rect) ==
  /\ isLoaded
  /\ pointer.phase = "released"
  /\ pointer.target = id
  /\ pointer' = PointerUp
  /\ IF didDragRef
     THEN /\ didDragRef' = FALSE
          /\ UNCHANGED << focusedId, focusOrigin, focusPhase, rafPending,
                          timersPending, sessionNewer >>
     ELSE IF isFocusedCard(id)
     THEN /\ timersPending < MaxPending
          /\ focusPhase' = "closing"
          /\ timersPending' = timersPending + 1
          /\ sessionNewer' = FALSE
          /\ UNCHANGED << didDragRef, focusedId, focusOrigin, rafPending >>
     ELSE /\ rafPending < MaxPending
          /\ focusOrigin' = <<rect>>
          /\ focusedId' = id
          /\ focusPhase' = "opening"
          /\ rafPending' = rafPending + 1
          /\ sessionNewer' = (timersPending > 0)
          /\ UNCHANGED << didDragRef, timersPending >>
  /\ fresh' = FALSE
  /\ scenario' = Advance("click", id)
  /\ lastLog' = <<>>
  /\ gesture' = NoGesture
  /\ UNCHANGED << storage, snapshot, listeners, hydrating, draggingId, dragPos,
                  dragStartRef, maxZRef, uncaught, maxEverZ, env >>

\* A next-paint callback that also saves the layout it renders.
rafCallbackPersisting ==
  LET p == persistLayout(positions, zIndexes, maxZRef, TRUE)
  IN /\ rafPending > 0
     /\ rafPending' = rafPending - 1
     /\ focusPhase' = "open"
     /\ storage' = p.saved.item
     /\ snapshot' = p.saved.snapshot
     /\ lastLog' = p.saved.log
     /\ fresh' = FALSE
     /\ scenario' = Advance("raf", 0)
     /\ UNCHANGED << listeners, hydrating, focusedId, focusOrigin, draggingId,
                     dragPos, dragStartRef, didDragRef, maxZRef, timersPending,
                     pointer, uncaught, maxEverZ, gesture, sessionNewer, env >>

\* Line 185: the requestAnimationFrame callback.
rafCallback ==
  /\ rafPending > 0
  /\ rafPending' = rafPending - 1
  /\ focusPhase' = "open"
  /\ fresh' = FALSE
  /\ scenario' = Advance("raf", 0)
  /\ lastLog' = <<>>
  /\ UNCHANGED << storage, snapshot, listeners, hydrating, focusedId, focusOrigin,
                  draggingId, dragPos, dragStartRef, didDragRef, maxZRef,
                  timersPending, pointer, uncaught, maxEverZ, gesture,
                  sessionNewer, env >>

\* Lines 175-179 and 193-197: the setTimeout(..., 450) callback.
timerCallback ==
  /\ timersPending > 0
  /\ timersPending' = timersPending - 1
  /\ focusedId' = 0
  /\ focusOrigin' = <<>>
  /\ focusPhase' = "idle"
  /\ fresh' = FALSE
  /\ scenario' = Advance("timer", 0)
  /\ lastLog' = <<>>
  /\ sessionNewer' = FALSE
  /\ UNCHANGED << storage, snapshot, listeners, hydrating, draggingId, dragPos,
                  dragStartRef, didDragRef, maxZRef, rafPending, pointer,
                  uncaught, maxEverZ, gesture, env >>

\* Lines 190-199 with 319-322: closeFocus, the overlay's onClick. The
\* overlay has the class "active" while the phase is open (line 319).
closeFocus ==
  /\ pointer.phase = "up"
  /\ env.inertOverlay => focusPhase = "open"
  /\ IF focusedId # 0
     THEN /\ timersPending < MaxPending
          /\ focusPhase' = "closing"
          /\ timersPending' = timersPending + 1
          /\ sessionNewer' = FALSE
     ELSE UNCHANGED << focusPhase, timersPending, sessionNewer >>
  /\ fresh' = FALSE
  /\ scenario' = Advance("close", 0)
  /\ lastLog' = <<>>
  /\ UNCHANGED << storage, snapshot, listeners, hydrating, focusedId, focusOrigin,
                  draggingId, dragPos, dragStartRef, didDragRef, maxZRef, rafPending,
                  pointer, uncaught, maxEverZ, gesture, env >>

\* Line 69: after a hydration render React renders again with getSnapshot().
hydrate ==
  /\ hydrating
  /\ hydrating' = FALSE
  /\ scenario' = NoScenario
  /\ lastLog' = <<>>
  /\ UNCHANGED << storage, snapshot, listeners, focusedId, focusOrigin, focusPhase,
                  draggingId, dragPos, dragStartRef, didDragRef, maxZRef, rafPending,
                  timersPending, pointer, fresh, uncaught, maxEverZ, gesture,
                  sessionNewer, env >>

\* Line 54: subscribe(cb) and the unsubscribe function it returns.
subscribe(cb) ==
  /\ listeners' = SetAdd(listeners, cb)
  /\ listeners' # listeners
  /\ fresh' = FALSE
  /\ scenario' = NoScenario
  /\ lastLog' = <<>>
  /\ UNCHANGED << storage, snapshot, hydrating, focusedId, focusOrigin, focusPhase,
                  draggingId, dragPos, dragStartRef, didDragRef, maxZRef, rafPending,
                  timersPending, pointer, uncaught, maxEverZ, gesture,
                  sessionNewer, env >>

unsubscribe(cb) ==
  /\ listeners' = SetDelete(listeners, cb)
  /\ listeners' # listeners
  /\ fresh' = FALSE
  /\ scenario' = NoScenario
  /\ lastLog' = <<>>
  /\ UNCHANGED << storage, snapshot, hydrating, focusedId, focusOrigin, focusPhase,
                  draggingId, dragPos, dragStartRef, didDragRef, maxZRef, rafPending,
                  timersPending, pointer, uncaught, maxEverZ, gesture,
                  sessionNewer, env >>

\* The page is loaded again: a fresh process over the same localStorage.
reload(hyd) ==
  /\ Mount(storage, hyd)
  /\ UNCHANGED maxEverZ

Next ==
  \/ \E id \in Cards, rect \in Rects, client \in PressPoints, writeOk \in BOOLEAN :
        handlePointerDown(id, rect, client, writeOk)
  \/ \E client \in MovePoints : handleMove(client)
  \/ \E writeOk \in BOOLEAN : handleEnd(writeOk)
  \/ releaseWithoutDrag
  \/ \E id \in Cards, rect \in Rects : handleClick(id, rect)
  \/ rafCallback
  \/ timerCallback
  \/ closeFocus
  \/ hydrate
  \/ \E cb \in Callbacks \ {"react"} : subscribe(cb)
  \/ \E cb \in Callbacks \ {"react"} : unsubscribe(cb)
  \/ \E hyd \in BOOLEAN : reload(hyd)

Spec == Init /\ [][Next]_vars

\* A browser whose localStorage rejects every write (storage disabled): the
\* layout never changes, and the same handlers are explored for
\* MaxFocusGestures gestures of one page load, with either kind of overlay.
InitFocus ==
  /\ env \in [writable : {FALSE}, inertOverlay : BOOLEAN,
               zCap : {BaseZ + 2 * MaxFocusGestures}]
  /\ Started({<<>>, <<GarbageText>>})

SpecFocus == InitFocus /\ [][Next]_vars

\* The layout the store holds after LongUseGestures drags of one card, each
\* saved: every gesture adds 2 to maxZ (lines 155 and 129).
LongUseLayout ==
  LET id == fragments[3].id
      z == BaseZ + 2 * LongUseGestures
  IN [positions |-> (id :> <<100, 100>>), zIndexes |-> (id :> z), maxZ |-> z]

\* The page after that long use, loaded by a client render, and explored for
\* MaxGestures further gestures.
InitLongUse ==
  /\ env = [writable |-> TRUE, inertOverlay |-> FALSE,
            zCap |-> LongUseLayout.maxZ + 2 * MaxGestures]
  /\ Started({<<JSONstringify(LongUseLayout)>>})
  /\ ~hydrating

\* The same handlers; every later load of the page is a client render too.
NextLongUse ==
  \/ \E id \in Cards, rect \in Rects, client \in PressPoints, writeOk \in BOOLEAN :
        handlePointerDown(id, rect, client, writeOk)
  \/ \E client \in MovePoints : handleMove(client)
  \/ \E writeOk \in BOOLEAN : handleEnd(writeOk)
  \/ releaseWithoutDrag
  \/ \E id \in Cards, rect \in Rects : handleClick(id, rect)
  \/ rafCallback
  \/ timerCallback
  \/ closeFocus
  \/ \E cb \in Callbacks \ {"react"} : subscribe(cb)
  \/ \E cb \in Callbacks \ {"react"} : unsubscribe(cb)
  \/ reload(FALSE)

SpecLongUse == InitLongUse /\ [][NextLongUse]_vars

\* ------------------------------------------------------------- getStyle
\* Lines 202-276: the style resolved for a card. customPos is positions[id]
\* as a nullable value.
getStyle(item, isFocused, isDragging, customPos) ==
  LET currentZ == IF item.id \in DOMAIN zIndexes /\ zIndexes[item.id] # 0
                  THEN zIndexes[item.id] ELSE item.z
  IN IF isFocused /\ focusOrigin # <<>>
     THEN IF focusPhase = "open"
          THEN [rule |-> "focused-open", top |-> "50%", left |-> "50%",
                right |-> "auto", at |-> <<>>, zIndex |-> FocusLayerZ]
          ELSE [rule |-> "focused-origin", top |-> "px", left |-> "px",
                right |-> "auto", at |-> focusOrigin, zIndex |-> FocusLayerZ]
     ELSE IF isDragging /\ dragPos # <<>>
     THEN [rule |-> "dragging", top |-> "px", left |-> "px", right |-> "auto",
           at |-> dragPos, zIndex |-> DragLayerZ]
     ELSE IF customPos # <<>>
     THEN [rule |-> "custom", top |-> "px", left |-> "px", right |-> "auto",
           at |-> customPos, zIndex |-> currentZ]
     ELSE [rule |-> "default", top |-> item.top, left |-> item.left,
           right |-> item.right, at |-> <<>>, zIndex |-> currentZ]

\* Lines 326-344: the style the render gives card id.
renderedStyle(id) ==
  getStyle(Fragment(id), focusedId = id, draggingId = id,
           IF id \in DOMAIN positions THEN <<positions[id]>> ELSE <<>>)

\* The layout a fresh process would load from storage now.
persisted == LoadData(storage)

\* ================================================================ claims
\* The entry of card id in a nullable layout's positions, as a nullable value.
PositionEntry(data, id) ==
  IF data # <<>> /\ id \in DOMAIN data[1].positions
  THEN <<data[1].positions[id]>> ELSE <<>>

\* Card id's z-index in layout data d is the maximum: it equals d.maxZ and
\* is above every other card's z-index.
IsTopmost(data, id) ==
  /\ data # <<>>
  /\ id \in DOMAIN data[1].zIndexes
  /\ data[1].zIndexes[id] = data[1].maxZ
  /\ \A k \in DOMAIN data[1].zIndexes :
        k # id => data[1].zIndexes[k] < data[1].zIndexes[id]

\* A press on a card was just handled and saved, and no move has followed.
JustPressed ==
  /\ pointer.phase = "down"
  /\ draggingId # 0
  /\ gesture.card = draggingId
  /\ ~gesture.moved
  /\ lastLog # <<>>

\* A step of handleEnd whose save succeeded.
ReleaseSaved ==
  /\ pointer.phase = "down"
  /\ draggingId # 0
  /\ pointer'.phase = "released"
  /\ lastLog' # <<>>

\* C1: a press on a card followed at once by a release, with no pointer
\* movement, leaves the card's entry in the persisted positions as it was
\* before the press (absent stays absent) and makes the card's persisted
\* z-index the new maximum.
C1_PressReleaseKeepsPosition ==
  [][ (JustPressed /\ ReleaseSaved) =>
        /\ PositionEntry(LoadData(storage'), gesture.card) = gesture.posBefore
        /\ IsTopmost(LoadData(storage'), gesture.card) ]_vars

\* C4: a completed drag of card c (pressed with its top-left at P, pointer
\* moved by D, released) persists positions[c] = P + D and a z-index for c
\* above every z-index assigned to any card before the gesture.
C4_DragCommitsPositionAndTopZ ==
  [][ (ReleaseSaved /\ gesture.card = draggingId /\ gesture.moved) =>
        LET P == <<dragStartRef[1].elemX, dragStartRef[1].elemY>>
            D == <<pointer.at[1] - pointer.pressedAt[1],
                   pointer.at[2] - pointer.pressedAt[2]>>
            after == LoadData(storage')
        IN /\ PositionEntry(after, draggingId) = << <<P[1] + D[1], P[2] + D[2]>> >>
           /\ draggingId \in DOMAIN after[1].zIndexes
           /\ after[1].zIndexes[draggingId] > gesture.zBefore ]_vars

\* C4, the position half alone (it holds).
C4_DragCommitsPosition ==
  [][ (ReleaseSaved /\ gesture.card = draggingId /\ gesture.moved) =>
        PositionEntry(LoadData(storage'), draggingId) =
          << << dragStartRef[1].elemX + pointer.at[1] - pointer.pressedAt[1],
                dragStartRef[1].elemY + pointer.at[2] - pointer.pressedAt[2] >> >> ]_vars

\* C5: the persisted maxZ is at least every persisted z-index, and every key
\* of the persisted positions and zIndexes is the id of a card of the dataset.
C5_MaxZBoundsZIndexes ==
  persisted # <<>> =>
    /\ \A k \in DOMAIN persisted[1].zIndexes :
          persisted[1].maxZ >= persisted[1].zIndexes[k]
    /\ DOMAIN persisted[1].positions \subseteq AllCardIds
    /\ DOMAIN persisted[1].zIndexes \subseteq AllCardIds

\* C5, the key half alone (it holds).
C5_KeysAreCards ==
  persisted # <<>> =>
    /\ DOMAIN persisted[1].positions \subseteq AllCardIds
    /\ DOMAIN persisted[1].zIndexes \subseteq AllCardIds

\* C2: after a gesture in which some move put the pointer more than 3 px
\* from where it was pressed, on either axis, the click on the same card
\* changes none of focusedId, focusOrigin, focusPhase and resets the
\* did-drag flag.
C2_ClickAfterDragKeepsFocus ==
  (pointer.phase = "released" /\ gesture.card = pointer.target /\ gesture.far) =>
    \A rect \in Rects :
      /\ ENABLED handleClick(pointer.target, rect)
      /\ ~ENABLED ( /\ handleClick(pointer.target, rect)
                    /\ ~( /\ focusedId' = focusedId
                          /\ focusOrigin' = focusOrigin
                          /\ focusPhase' = focusPhase
                          /\ rafPending' = rafPending
                          /\ timersPending' = timersPending
                          /\ didDragRef' = FALSE ) )

C2_Witness ==
  /\ pointer.phase = "released"
  /\ gesture.card = pointer.target
  /\ gesture.far
  /\ didDragRef
  /\ focusPhase = "idle"

\* The focus state after a click that opens card id.
OpensCard(id) ==
  /\ focusedId' = id
  /\ focusPhase' = "opening"
  /\ rafPending' = rafPending + 1

\* The focus state after a click that starts closing the focused card.
StartsClosing ==
  /\ focusedId' = focusedId
  /\ focusPhase' = "closing"
  /\ timersPending' = timersPending + 1

\* C3 as stated: while idle a click on card A gives focusedId = A and phase
\* opening, and the next-paint callback gives open; with A focused and the
\* phase open a click on A or on the overlay gives closing, and the 450 ms
\* timer gives idle with focusedId and focusOrigin null.
C3_FocusLifecycleAnyClick ==
  /\ focusPhase = "idle" =>
        \A id \in Cards, rect \in Rects :
          ~ENABLED (handleClick(id, rect) /\ ~OpensCard(id))
  /\ ~ENABLED (rafCallback /\ focusPhase' # "open")
  /\ (focusPhase = "open" /\ focusedId # 0) =>
        /\ \A rect \in Rects :
             ~ENABLED (handleClick(focusedId, rect) /\ ~StartsClosing)
        /\ ~ENABLED (closeFocus /\ ~StartsClosing)
  /\ ~ENABLED (timerCallback
                 /\ ~(focusPhase' = "idle" /\ focusedId' = 0 /\ focusOrigin' = <<>>))

\* C3 as amended: the same, for clicks handled with the did-drag flag false.
C3_FocusLifecycle ==
  /\ (focusPhase = "idle" /\ ~didDragRef) =>
        \A id \in Cards, rect \in Rects :
          ~ENABLED (handleClick(id, rect) /\ ~OpensCard(id))
  /\ ~ENABLED (rafCallback /\ focusPhase' # "open")
  /\ (focusPhase = "open" /\ focusedId # 0 /\ ~didDragRef) =>
        \A rect \in Rects :
          ~ENABLED (handleClick(focusedId, rect) /\ ~StartsClosing)
  /\ (focusPhase = "open" /\ focusedId # 0) =>
        ~ENABLED (closeFocus /\ ~StartsClosing)
  /\ ~ENABLED (timerCallback
                 /\ ~(focusPhase' = "idle" /\ focusedId' = 0 /\ focusOrigin' = <<>>))

\* A card was opened by a click, shown open, closed from the overlay, and
\* the timer has returned the phase to idle.
C3_Witness == scenario.stage = 6 /\ focusPhase = "idle" /\ focusedId = 0

\* C6: after a successful save of s, the load of a fresh process yields a
\* snapshot whose data is s, with isLoaded true.
C6_SaveLoadRoundTrip ==
  lastLog # <<>> =>
    /\ snapshot.data # <<>>
    /\ LoadSnapshot(storage) = [data |-> snapshot.data, isLoaded |-> TRUE]

\* A layout with a negative coordinate and two cards placed was just saved.
C6_Witness ==
  /\ lastLog # <<>>
  /\ snapshot.data # <<>>
  /\ Cardinality(DOMAIN snapshot.data[1].positions) = 2
  /\ \E k \in DOMAIN snapshot.data[1].positions : snapshot.data[1].positions[k][1] < 0

\* C7: a card without position override is clicked while idle (press,
\* release, click) and goes idle, opening, open; an overlay click returns
\* the phase to idle; the card's style is then its static anchor again.
C7_ClickedCardReturnsToAnchor ==
  scenario.stage = 6 =>
    /\ focusPhase = "idle"
    /\ LET st == renderedStyle(scenario.card)
           item == Fragment(scenario.card)
       IN /\ st.rule = "default"
          /\ st.top = item.top /\ st.left = item.left /\ st.right = item.right

\* C7, the phase half alone (it holds).
C7_ClickedCardReturnsToIdle == scenario.stage = 6 => focusPhase = "idle"

\* C8: a successful save calls every subscribed callback exactly once and no
\* other callback, and each call reads the saved data from getSnapshot.
C8_OneFreshNotificationEach ==
  lastLog # <<>> =>
    /\ \A i \in 1..Len(listeners) :
          Cardinality({j \in 1..Len(lastLog) : lastLog[j].cb = listeners[i]}) = 1
    /\ \A j \in 1..Len(lastLog) :
          /\ lastLog[j].fresh
          /\ \E i \in 1..Len(listeners) : listeners[i] = lastLog[j].cb

C8_Witness == Len(lastLog) = 2 /\ Len(listeners) = 2

\* A step of a handler whose save failed.
FailedSaveStep ==
  /\ lastLog' = <<>>
  /\ \/ pointer.phase # "down" /\ pointer'.phase = "down" /\ draggingId' # 0
     \/ pointer.phase = "down" /\ draggingId # 0 /\ pointer'.phase = "released"

\* C9 as stated: a failed storage write lets no error escape and leaves the
\* store snapshot and the running maxZ counter as they were.
C9_FailedWriteChangesNothing ==
  [][ FailedSaveStep =>
        /\ ~uncaught'
        /\ snapshot' = snapshot
        /\ maxZRef' = maxZRef ]_vars

\* What a failed write leaves: storage and snapshot as they were, no error,
\* the counter advanced by one.
FailedWriteOutcome ==
  /\ ~uncaught'
  /\ storage' = storage
  /\ snapshot' = snapshot
  /\ maxZRef' = maxZRef + 1

\* C9 as amended: a failed storage write lets no error escape and leaves
\* the store snapshot as it was; the running maxZ counter is advanced by one.
C9_FailedWriteKeepsStore ==
  /\ \A id \in Cards \ {focusedId}, rect \in Rects, client \in PressPoints :
        ~ENABLED (handlePointerDown(id, rect, client, FALSE) /\ ~FailedWriteOutcome)
  /\ ~ENABLED (handleEnd(FALSE) /\ ~FailedWriteOutcome)

\* A write has failed: the counter is ahead of the store's maxZ.
C9_Witness ==
  /\ ~hydrating
  /\ maxZRef > InitialMaxZ(snapshot.data)
  /\ ~uncaught

\* C10: started over an absent or unparsable record, the process raises no
\* error, the store is loaded with no data, there are no position or z-index
\* overrides, and the counter is at 20, above every card's static z.
C10_EmptyStart ==
  (fresh /\ (storage = <<>> \/ storage = <<GarbageText>>)) =>
    /\ ~uncaught
    /\ snapshot = [data |-> <<>>, isLoaded |-> TRUE]
    /\ positions = <<>> /\ zIndexes = <<>>
    /\ maxZRef = BaseZ
    /\ \A i \in 1..Len(fragments) : fragments[i].z < maxZRef

C10_Witness == fresh /\ ~hydrating /\ storage = <<GarbageText>>

\* ---------------------------------------------------------------- C11
\* The release of a gesture that began with a handled press on card
\* gesture.card (a card that was not focused) and never took the pointer more
\* than 3 px from the press point on either axis.
StillGestureReleased ==
  /\ pointer.phase = "released"
  /\ gesture.card # 0
  /\ gesture.card = pointer.target
  /\ ~gesture.far

\* C11: after a gesture on a non-focused card in which the pointer never
\* moved more than 3 px from where it was pressed on either axis (3 px
\* exactly included), the did-drag flag is false when the click is handled,
\* and the click toggles focus: it starts closing the card if it is the
\* focused one and starts opening it otherwise.
C11_StillGestureClickToggles ==
  StillGestureReleased =>
    /\ ~didDragRef
    /\ \A rect \in Rects :
         ~ENABLED (/\ handleClick(pointer.target, rect)
                   /\ ~(IF focusedId = pointer.target
                        THEN StartsClosing
                        ELSE OpensCard(pointer.target)))

\* A gesture that moved the pointer by exactly 3 px on both axes has just been
\* released and saved, and its click can be handled.
C11_Witness ==
  /\ StillGestureReleased
  /\ gesture.moved
  /\ lastLog # <<>>
  /\ \E rect \in Rects :
       PositionEntry(snapshot.data, gesture.card) = << <<rect[1] + 3, rect[2] - 3>> >>
  /\ \E rect \in Rects : ENABLED handleClick(pointer.target, rect)
\* ---------------------------------------------------------------- C12
\* A step that leaves the localStorage item and the store's snapshot
\* (positions, zIndexes, maxZ) as they were and calls no listener.
StoreUntouched ==
  /\ storage' = storage
  /\ snapshot' = snapshot
  /\ lastLog' = <<>>

\* C12: handleClick, closeFocus, the next-paint callback and the 450 ms timer
\* callback leave the persisted positions, zIndexes and maxZ unchanged and
\* notify no subscriber.
C12_FocusNeverTouchesStore ==
  /\ \A id \in Cards, rect \in Rects : ~ENABLED (handleClick(id, rect) /\ ~StoreUntouched)
  /\ ~ENABLED (closeFocus /\ ~StoreUntouched)
  /\ ~ENABLED (rafCallback /\ ~StoreUntouched)
  /\ ~ENABLED (timerCallback /\ ~StoreUntouched)

\* A card was clicked open and closed again through all four focus
\* operations while the store held a saved layout and had a second subscriber.
C12_Witness ==
  /\ scenario.stage = 6
  /\ snapshot.data # <<>>
  /\ persisted = snapshot.data
  /\ Len(listeners) = 2
\* ---------------------------------------------------------------- C13
\* The edges of the focus state machine.
PhaseEdges ==
  { <<"idle", "opening">>, <<"opening", "open">>,
    <<"open", "closing">>, <<"closing", "idle">> }

\* C13: within one page load, under every interleaving of card clicks,
\* overlay clicks, next-paint callbacks and closing timers, every change of
\* focusPhase is idle to opening, opening to open, open to closing or closing
\* to idle. It is stated here for the page whose overlay takes clicks only
\* while active, where every overlay click is one the user can make.
C13_PhaseFollowsCycle ==
  [][ (focusPhase' # focusPhase /\ ~fresh' /\ env.inertOverlay) =>
        <<focusPhase, focusPhase'>> \in PhaseEdges ]_vars
\* ---------------------------------------------------------------- C14
\* C14: a closing timer that fires only completes the close it was scheduled
\* for: it does not clear or reset a focus session (a card opening or open)
\* that started after the timer was scheduled. sessionNewer holds exactly
\* while the focused card was focused after every pending timer was
\* scheduled.
C14_TimerSparesNewerSession ==
  [][ ( /\ timersPending' = timersPending - 1
        /\ ~fresh'
        /\ sessionNewer
        /\ focusPhase \in {"opening", "open"}
        /\ env.inertOverlay )
      => (focusedId' = focusedId /\ focusOrigin' = focusOrigin
          /\ focusPhase' = focusPhase) ]_vars
\* ---------------------------------------------------------------- C15
\* A step in which handlePointerDown handled a press (the pressed card is
\* the one now dragged) and its save was written.
PressSaved ==
  /\ pointer.phase # "down"
  /\ pointer'.phase = "down"
  /\ draggingId' = pointer'.target
  /\ lastLog' # <<>>

\* C15: a pointer-down on a non-focused card c sets, in that same step, the
\* store's zIndexes[c] and maxZ to the z-index counter's value before the
\* call plus 1, which is strictly above every other card's persisted
\* z-index; the snapshot that a later move or end of the gesture reads holds
\* it; and positions are as they were.
C15_PressRaisesCardToTop ==
  [][ PressSaved =>
        LET c == draggingId'
            d == snapshot'.data
        IN /\ d # <<>>
           /\ d = LoadData(storage')
           /\ d[1].maxZ = maxZRef + 1
           /\ c \in DOMAIN d[1].zIndexes
           /\ d[1].zIndexes[c] = maxZRef + 1
           /\ \A k \in DOMAIN d[1].zIndexes \ {c} :
                d[1].zIndexes[k] < d[1].zIndexes[c]
           /\ d[1].positions = positions ]_vars
\* ---------------------------------------------------------------- C16
\* Every card other than id has the same entry, or the same absence of one,
\* in objects before and after.
OthersKept(before, after, id) ==
  /\ (DOMAIN after) \ {id} = (DOMAIN before) \ {id}
  /\ \A k \in (DOMAIN before) \ {id} : after[k] = before[k]

\* A step of handleEnd is the release of the pointer while a card is dragged.
\* What handleEnd leaves behind: no drag in progress, and the layout the
\* later steps read differs from the one read before in the dragged card's
\* entries at most.
EndClearsAndMerges ==
  /\ draggingId' = 0
  /\ dragPos' = <<>>
  /\ dragStartRef' = <<>>
  /\ snapshot'.data # <<>> =>
       /\ OthersKept(positions, snapshot'.data[1].positions, draggingId)
       /\ OthersKept(zIndexes, snapshot'.data[1].zIndexes, draggingId)
  /\ snapshot'.data = <<>> => snapshot.data = <<>>
  /\ storage' # storage => LoadData(storage') = snapshot'.data

\* C16: handleEnd always leaves draggingId, dragPos and dragStartRef null,
\* whether or not it commits and whether or not the write succeeds; and when
\* it commits, the position and z-index overrides of every card other than
\* the dragged one are after it what they were before it.
C16_EndClearsDragKeepsOthers ==
  [][ (draggingId # 0 /\ pointer.phase = "down" /\ pointer'.phase = "released")
      => EndClearsAndMerges ]_vars

\* A drag of one card has just been committed and saved while another card
\* holds a position and a z-index override.
C16_Witness ==
  /\ pointer.phase = "released"
  /\ draggingId = 0 /\ dragPos = <<>> /\ dragStartRef = <<>>
  /\ lastLog # <<>>
  /\ gesture.card = pointer.target
  /\ \E k \in Cards \ {gesture.card} :
       k \in DOMAIN positions /\ k \in DOMAIN zIndexes
\* ---------------------------------------------------------------- C17
\* The rule by which getStyle resolved card id's z-index.
Layer(id) ==
  LET rule == renderedStyle(id).rule
  IN IF rule \in {"focused-open", "focused-origin"} THEN "focused"
     ELSE IF rule = "dragging" THEN "dragging" ELSE "resting"

\* C17: in every reachable state, whatever the number of gestures made and
\* whatever maxZ was loaded at startup, the z-index resolved for a focused
\* card is above the one resolved for a dragged card, which is above the one
\* resolved for every resting card (its persisted override, else its static
\* z-index).
C17_LayersOrdered ==
  \A a \in Cards, b \in Cards :
    \/ a = b
    \/ Layer(a) = Layer(b)
    \/ Layer(a) = "resting" /\ Layer(b) \in {"dragging", "focused"}
         /\ renderedStyle(a).zIndex < renderedStyle(b).zIndex
    \/ Layer(a) = "dragging" /\ Layer(b) = "focused"
         /\ renderedStyle(a).zIndex < renderedStyle(b).zIndex
    \/ Layer(b) = "resting" /\ Layer(a) \in {"dragging", "focused"}
    \/ Layer(b) = "dragging" /\ Layer(a) = "focused"
\* ---------------------------------------------------------------- C18
\* A step that changes nothing of the store, the focus state, the drag state
\* or the pending callbacks, and calls no listener.
ProgramStateKept ==
  /\ UNCHANGED << storage, snapshot, listeners, focusedId, focusOrigin, focusPhase,
                  draggingId, dragPos, dragStartRef, didDragRef, maxZRef,
                  rafPending, timersPending, uncaught >>
  /\ lastLog' = <<>>

\* C18: a pointer-down on the focused card changes no state, and the card
\* being dragged is never the focused card.
C18_FocusedCardIsNeverDragged ==
  /\ draggingId # 0 => draggingId # focusedId
  /\ focusedId # 0 =>
       \A rect \in Rects, client \in PressPoints, writeOk \in BOOLEAN :
         ~ENABLED (/\ handlePointerDown(focusedId, rect, client, writeOk)
                   /\ ~ProgramStateKept)

\* The pointer is down on the focused card, after a drag of another card
\* that was made while this card was focused.
C18_Witness ==
  /\ focusedId # 0
  /\ pointer.phase = "down"
  /\ pointer.target = focusedId
  /\ draggingId = 0
  /\ didDragRef
\* ---------------------------------------------------------------- C19
\* C19: the focus variables agree in every reachable state: focusPhase is
\* idle exactly when focusedId is null, focusOrigin is null exactly when
\* focusedId is null, and the phase is never open with no focused card (so an
\* active overlay always has a card to close). It is stated here for the page
\* whose overlay takes clicks only while active.
C19_FocusVariablesAgree ==
  env.inertOverlay =>
    /\ (focusPhase = "idle") <=> (focusedId = 0)
    /\ (focusOrigin = <<>>) <=> (focusedId = 0)
    /\ focusPhase = "open" => focusedId # 0
\* ---------------------------------------------------------------- C20
\* No two cards have the same z-index in layout data d.
DistinctZIndexes(d) ==
  \A a \in DOMAIN d.zIndexes, b \in DOMAIN d.zIndexes :
    a # b => d.zIndexes[a] # d.zIndexes[b]

\* C20: across gestures, failed writes and page loads, no two cards have the
\* same persisted z-index, and the persisted maxZ of a save is never below
\* the persisted maxZ before it.
C20_StrictStacking ==
  [][ LoadData(storage') # <<>> =>
        /\ DistinctZIndexes(LoadData(storage')[1])
        /\ LoadData(storage) # <<>> =>
             LoadData(storage')[1].maxZ >= LoadData(storage)[1].maxZ ]_vars
====
